---- MODULE Spec2Model ----
(***************************************************************************)
(* Model of the TinyTapeout demoboard SDK core: the boot-time demoboard    *)
(* detector (ttboard/boot/demoboard_detect.py), the start-up sequence of   *)
(* main.py and the operating-mode state machine of the Pins facade         *)
(* (ttboard/pins/pins.py), its port-byte properties together with the     *)
(* register-level byte functions of ttboard/util/platform.py, and the      *)
(* selection kept by the controller of the muxed pins.                     *)
(*                                                                         *)
(* Pin names are sequences of characters so that str.startswith is         *)
(* computed, not assumed.  The topology tables (ttboard/pins/gpio_map.py), *)
(* the pin classes and the mode enumeration are outside the sources at     *)
(* hand; they are modelled from the specification of the data model.       *)
(***************************************************************************)
EXTENDS Integers, Sequences, FiniteSets, TLC

\* ------------------------------------------------------------------ bounds
\* number of pins modelled per port (in0.., out0.., uio0..)
PortWidth == 2
\* per-pin mode/pull changes a client makes between two mode sets
MaxClientOps == 1
\* MuxedPin objects the controller's registry may hold
MaxMuxed == 6

\* the highest frequency, in Hz, a PIOClock is started with
MaxFreq == 5

\* --------------------------------------------------------------- constants
\* DemoboardVersion
UNKNOWN == 0
TT04 == 1
TT06 == 2

\* the two topology tables of ttboard.pins.gpio_map
GPIOMapTT04 == "GPIOMapTT04"
GPIOMapTT06 == "GPIOMapTT06"

\* machine.Pin directions and pulls
Pin_IN == "IN"
Pin_OUT == "OUT"
PULL_NONE == "PULL_NONE"
PULL_UP == "PULL_UP"
PULL_DOWN == "PULL_DOWN"
Pulls == {PULL_NONE, PULL_UP, PULL_DOWN}
PinModes == {Pin_IN, Pin_OUT}

\* RPMode / RPModeDEVELOPMENT
SAFE == "SAFE"
ASIC_RP_CONTROL == "ASIC_RP_CONTROL"
ASIC_MANUAL_INPUTS == "ASIC_MANUAL_INPUTS"
STANDALONE == "STANDALONE"
\* the keys of startupMap in the mode setter
startupMap == {STANDALONE, ASIC_RP_CONTROL, ASIC_MANUAL_INPUTS, SAFE}
\* Pins._mode before the first mode set
NoMode == "None"
\* a mode-set argument that is none of the four modes
INVALID_MODE == "INVALID_MODE"
\* Pins() called without its mode argument
DefaultArg == "default"

\* ------------------------------------------------------------------- names
Digit == <<"0", "1", "2", "3", "4", "5", "6", "7", "8", "9">>

\* str.startswith
StartsWith(name, prefix) ==
    /\ Len(name) >= Len(prefix)
    /\ SubSeq(name, 1, Len(prefix)) = prefix

pfx_in == <<"i", "n">>
pfx_out == <<"o", "u", "t">>
pfx_uio == <<"u", "i", "o">>

\* f'{basename}{i}'
PortName(basename, i) == basename \o <<Digit[i + 1]>>

rp_projclk == <<"r", "p", "_", "p", "r", "o", "j", "c", "l", "k">>
\* Pins.muxName
muxName == <<"h", "k", "_", "c", "s", "b">>
nprojectrst == <<"n", "p", "r", "o", "j", "e", "c", "t", "r", "s", "t">>
cinc == <<"c", "i", "n", "c">>
cena == <<"c", "e", "n", "a">>
ncrst == <<"n", "c", "r", "s", "t">>
sdi == <<"s", "d", "i">>
out3 == <<"o", "u", "t", "3">>
sdi_nprojectrst == sdi \o <<"_">> \o nprojectrst
cinc_out3 == cinc \o <<"_">> \o out3

\* the elements of a sequence
Range(s) == {s[i] : i \in 1..Len(s)}

\* the pins of one port in index order, leaving out the indices in skip
PortSeq(basename, skip) ==
    LET keep(i) == (i - 1) \notin skip
        idx == SelectSeq([i \in 1..PortWidth |-> i], keep)
    IN  [k \in 1..Len(idx) |-> PortName(basename, idx[k] - 1)]

\* ---------------------------------------------------------------- topology
\* GPIOMap.all().keys(), in the order of the dict
AllNamesTT04 ==
    <<rp_projclk, muxName, sdi_nprojectrst, cinc_out3>>
        \o PortSeq(pfx_in, {}) \o PortSeq(pfx_out, {3}) \o PortSeq(pfx_uio, {})

AllNamesTT06 ==
    <<rp_projclk, nprojectrst, cinc, cena, ncrst>>
        \o PortSeq(pfx_in, {}) \o PortSeq(pfx_out, {}) \o PortSeq(pfx_uio, {})

AllNames(map) == IF map = GPIOMapTT04 THEN AllNamesTT04 ELSE AllNamesTT06

\* GPIOMap.demoboard_uses_mux()
demoboard_uses_mux(map) == map = GPIOMapTT04

\* GPIOMap.always_outputs()
always_outputs(map) ==
    IF map = GPIOMapTT04 THEN {cinc_out3} ELSE {cinc, cena, ncrst}

\* GPIOMap.default_pull(name): the pull the table gives, none if unspecified
default_pull(map, name) ==
    IF map = GPIOMapTT06 /\ name = nprojectrst THEN PULL_UP ELSE PULL_NONE

\* GPIOMap.muxed_pairs(): shared pin name -> (half at index 0, half at index 1)
muxed_pairsTT04 ==
    (sdi_nprojectrst :> <<sdi, nprojectrst>>) @@ (cinc_out3 :> <<cinc, out3>>)

muxed_pairs(map) == IF map = GPIOMapTT04 THEN muxed_pairsTT04 ELSE << >>

\* the names of the two halves of every muxed pair of the TT04 map
MuxHalves == UNION {Range(muxed_pairsTT04[p]) : p \in DOMAIN muxed_pairsTT04}

\* GPIOMap.muxed_pinmode_map(rpmode): the mode each half takes when selected
muxed_pinmode_mapTable ==
    [rpmode \in startupMap \cup {NoMode} |->
        [h \in MuxHalves |->
            IF StartsWith(h, pfx_out)
            THEN (IF rpmode = STANDALONE THEN Pin_OUT ELSE Pin_IN)
            ELSE IF h = nprojectrst
                 THEN (IF rpmode = ASIC_RP_CONTROL THEN Pin_OUT ELSE Pin_IN)
                 ELSE Pin_OUT]]

muxed_pinmode_map(map, rpmode) ==
    IF map = GPIOMapTT04 THEN muxed_pinmode_mapTable[rpmode] ELSE << >>

\* ---------------------------------------------------------------- detector
\* what a suspended call leaves behind: the classmethods of DemoboardDetect
\* work on the class attributes PCB and CarrierPresent and on the module
\* global GPIOMap; a detector state is the record of the three
NoCarrier == "None"
NoMap == "None"

\* mapToUse in _configure_gpiomap
mapToUse == (TT04 :> GPIOMapTT04) @@ (TT06 :> GPIOMapTT06)

\* three control-readback samples [cena_pin(), cinc_pin(), crst_pin()]
Samples3 == [1..3 -> {0, 1}]

\* DemoboardDetect.probe_tt04mux: d the detector state, mux_0/mux_1 the samples
\* read with the mux-select line driven low / high
probe_tt04mux(d, mux_0, mux_1) ==
    IF mux_1 # mux_0
    THEN [d |-> [d EXCEPT !.PCB = TT04], ret |-> TRUE]
    ELSE [d |-> d, ret |-> FALSE]

\* probe_pullups with the carrier test inverted (both lines high taken as
\* the carrier signature)
probe_pullups_inverted(d, crst_lvl, cena_lvl) ==
    IF crst_lvl = 1 /\ cena_lvl = 1
    THEN [d |-> [d EXCEPT !.PCB = TT06, !.CarrierPresent = "True"], ret |-> TRUE]
    ELSE IF crst_lvl = 0 /\ cena_lvl = 0
         THEN [d |-> [d EXCEPT !.PCB = UNKNOWN, !.CarrierPresent = NoCarrier],
               ret |-> FALSE]
         ELSE [d |-> d, ret |-> FALSE]

\* DemoboardDetect.probe_pullups: crst_lvl and cena_lvl: the levels read on the lines
probe_pullups(d, crst_lvl, cena_lvl) ==
    IF crst_lvl = 0 /\ cena_lvl = 0
    THEN [d |-> [d EXCEPT !.PCB = TT06, !.CarrierPresent = "True"], ret |-> TRUE]
    ELSE IF crst_lvl = 1 /\ cena_lvl = 1
         THEN [d |-> [d EXCEPT !.PCB = UNKNOWN, !.CarrierPresent = NoCarrier],
               ret |-> FALSE]
         ELSE [d |-> d, ret |-> FALSE]

\* _configure_gpiomap that installs the newer map whatever PCB says
configure_gpiomap_newest(d) ==
    IF d.PCB \in DOMAIN mapToUse
    THEN [d EXCEPT !.GPIOMap = GPIOMapTT06]
    ELSE [d EXCEPT !.raised = TRUE]

\* DemoboardDetect._configure_gpiomap: installs the map of PCB, raises otherwise
configure_gpiomap(d) ==
    IF d.PCB \in DOMAIN mapToUse
    THEN [d EXCEPT !.GPIOMap = mapToUse[d.PCB]]
    ELSE [d EXCEPT !.raised = TRUE]

\* probe that runs the pull-signature test before the mux test
probe_pullups_first(d, mux_0, mux_1, crst_lvl, cena_lvl) ==
    LET p == probe_pullups(d, crst_lvl, cena_lvl)
        m == probe_tt04mux(p.d, mux_0, mux_1)
    IN  IF p.ret
        THEN [d |-> configure_gpiomap(p.d), ret |-> TRUE, pullups |-> TRUE]
        ELSE IF m.ret
             THEN [d |-> configure_gpiomap(m.d), ret |-> TRUE, pullups |-> TRUE]
             ELSE [d |-> configure_gpiomap([m.d EXCEPT !.PCB = TT06]),
                   ret |-> FALSE, pullups |-> TRUE]

\* probe whose default branch reports its guess as a detection
probe_guess_conclusive(d, mux_0, mux_1, crst_lvl, cena_lvl) ==
    LET m == probe_tt04mux(d, mux_0, mux_1)
        p == probe_pullups(m.d, crst_lvl, cena_lvl)
    IN  IF m.ret
        THEN [d |-> configure_gpiomap(m.d), ret |-> TRUE, pullups |-> FALSE]
        ELSE IF p.ret
             THEN [d |-> configure_gpiomap(p.d), ret |-> TRUE, pullups |-> TRUE]
             ELSE [d |-> configure_gpiomap([p.d EXCEPT !.PCB = TT06]),
                   ret |-> TRUE, pullups |-> TRUE]

\* DemoboardDetect.probe: the result carries the detector state, the value
\* returned and whether probe_pullups was entered
probe(d, mux_0, mux_1, crst_lvl, cena_lvl) ==
    LET m == probe_tt04mux(d, mux_0, mux_1)
        p == probe_pullups(m.d, crst_lvl, cena_lvl)
    IN  IF m.ret
        THEN [d |-> configure_gpiomap(m.d), ret |-> TRUE, pullups |-> FALSE]
        ELSE IF p.ret
             THEN [d |-> configure_gpiomap(p.d), ret |-> TRUE, pullups |-> TRUE]
             ELSE [d |-> configure_gpiomap([p.d EXCEPT !.PCB = TT06]),
                   ret |-> FALSE, pullups |-> TRUE]

\* force_detection that records the version and leaves the installed map
force_detection_no_configure(d, dbversion) ==
    [d EXCEPT !.PCB = dbversion]

\* DemoboardDetect.force_detection: PCB is assigned, then the map configured
force_detection(d, dbversion) ==
    configure_gpiomap([d EXCEPT !.PCB = dbversion])

\* -------------------------------------------------------------------- Pins
\* A Pins object is the record
\*   _mode                        the recorded operating mode
\*   dieOnInputControlSwitchHigh  the contention-guard flag
\*   pinMode, pinPull             mode and pull of the pin bound to each name
\*   subMode                      the mode recorded in the MuxedPinInfo of each half
\*   muxed                        the MuxedPin objects added to muxCtrl so far
\*   created                      the names the latest Pins.mode set (or __init__)
\*                                bound to a newly constructed pin object
\*   steps                        the methods the latest begin_* ran, in order
\*   sampled                      the levels the latest begin_* read with p()
\*   unconfigured_pins            the list the latest begin_asiconboard built
\*   error_logged                 whether it passed that list to log.error

\* the names of AllNames(map) a pass over GPIOMap.all().keys() selects by prefix
NamesWithTable ==
    [map \in {GPIOMapTT04, GPIOMapTT06} |->
        [prefix \in {pfx_in, pfx_out} |->
            {n \in Range(AllNames(map)) : StartsWith(n, prefix)}]]

NamesWith(map, prefix) == NamesWithTable[map][prefix]

\* begin_inputs_all that constructs a pin only for a name not bound yet and
\* leaves a pin that exists as it is
begin_inputs_all_keep(map, s) ==
    LET names == (Range(AllNames(map)) \ {muxName}) \ DOMAIN s.pinMode
        all == DOMAIN s.pinMode \cup names
    IN  [s EXCEPT
            !.pinMode = [n \in all |->
                IF n \in names
                THEN (IF n \in always_outputs(map) THEN Pin_OUT ELSE Pin_IN)
                ELSE s.pinMode[n]],
            !.pinPull = [n \in all |->
                IF n \in names THEN default_pull(map, n) ELSE s.pinPull[n]],
            !.created = s.created \cup names,
            !.steps = Append(s.steps, "begin_inputs_all")]

\* begin_inputs_all that constructs the pins with the pull they had before
begin_inputs_all_keep_pull(map, s) ==
    LET names == Range(AllNames(map)) \ {muxName}
        all == DOMAIN s.pinMode \cup names
    IN  [s EXCEPT
            !.pinMode = [n \in all |->
                IF n \in names
                THEN (IF n \in always_outputs(map) THEN Pin_OUT ELSE Pin_IN)
                ELSE s.pinMode[n]],
            !.pinPull = [n \in all |->
                IF n \in DOMAIN s.pinPull THEN s.pinPull[n] ELSE default_pull(map, n)],
            !.created = s.created \cup names,
            !.steps = Append(s.steps, "begin_inputs_all")]

\* Pins.begin_inputs_all: a fresh StandardPin for every name but muxName
begin_inputs_all(map, s) ==
    LET names == Range(AllNames(map)) \ {muxName}
        all == DOMAIN s.pinMode \cup names
    IN  [s EXCEPT
            !.pinMode = [n \in all |->
                IF n \in names
                THEN (IF n \in always_outputs(map) THEN Pin_OUT ELSE Pin_IN)
                ELSE s.pinMode[n]],
            !.pinPull = [n \in all |->
                IF n \in names THEN default_pull(map, n) ELSE s.pinPull[n]],
            !.created = s.created \cup names,
            !.steps = Append(s.steps, "begin_inputs_all")]

\* _begin_alwaysOut that assigns Pin.IN
begin_alwaysOut_in(map, s) ==
    [s EXCEPT
        !.pinMode = [n \in DOMAIN s.pinMode |->
            IF n \in always_outputs(map) THEN Pin_IN ELSE s.pinMode[n]],
        !.steps = Append(s.steps, "_begin_alwaysOut")]

\* Pins._begin_alwaysOut
begin_alwaysOut(map, s) ==
    [s EXCEPT
        !.pinMode = [n \in DOMAIN s.pinMode |->
            IF n \in always_outputs(map) THEN Pin_OUT ELSE s.pinMode[n]],
        !.steps = Append(s.steps, "_begin_alwaysOut")]

\* Pins._begin_muxPins: one new MuxedPin per pair, added to the controller
begin_muxPins(map, s) ==
    IF ~demoboard_uses_mux(map)
    THEN [s EXCEPT !.steps = Append(s.steps, "_begin_muxPins")]
    ELSE [s EXCEPT
            !.subMode = muxed_pinmode_map(map, s._mode),
            !.muxed = s.muxed + Cardinality(DOMAIN muxed_pairs(map)),
            !.created = s.created \cup DOMAIN muxed_pairs(map),
            !.steps = Append(s.steps, "_begin_muxPins")]

\* project_clk_driven_by_RP2040 with the two branches exchanged
project_clk_swapped(s, rpControlled) ==
    [s EXCEPT
        !.pinMode[rp_projclk] = IF rpControlled THEN Pin_IN ELSE Pin_OUT,
        !.steps = Append(s.steps, "project_clk_driven_by_RP2040")]

\* Pins.project_clk_driven_by_RP2040
project_clk_driven_by_RP2040(s, rpControlled) ==
    [s EXCEPT
        !.pinMode[rp_projclk] = IF rpControlled THEN Pin_OUT ELSE Pin_IN,
        !.steps = Append(s.steps, "project_clk_driven_by_RP2040")]

\* Pins.begin_safe
begin_safe(map, s) ==
    begin_muxPins(map, begin_alwaysOut(map, begin_inputs_all(map, s)))

\* the loop with the test on p() negated
asic_in_pass_negated(map, s, lv) ==
    LET ins == NamesWith(map, pfx_in)
        guarded == s.dieOnInputControlSwitchHigh
        flagged(n) == n \in ins /\ guarded /\ lv[n] = 0
        unconfigured_pins == SelectSeq(AllNames(map), flagged)
    IN  [s EXCEPT
            !.pinMode = [n \in DOMAIN s.pinMode |->
                IF n \in ins /\ ~flagged(n) THEN Pin_OUT ELSE s.pinMode[n]],
            !.sampled = [n \in (IF guarded THEN ins ELSE {}) |-> lv[n]],
            !.unconfigured_pins = unconfigured_pins,
            !.error_logged = (Len(unconfigured_pins) > 0),
            !.steps = Append(s.steps, "in_pass")]

\* the loop without its continue: a flagged pin is made an output all the same
asic_in_pass_no_continue(map, s, lv) ==
    LET ins == NamesWith(map, pfx_in)
        guarded == s.dieOnInputControlSwitchHigh
        flagged(n) == n \in ins /\ guarded /\ lv[n] = 1
        unconfigured_pins == SelectSeq(AllNames(map), flagged)
    IN  [s EXCEPT
            !.pinMode = [n \in DOMAIN s.pinMode |->
                IF n \in ins THEN Pin_OUT ELSE s.pinMode[n]],
            !.sampled = [n \in (IF guarded THEN ins ELSE {}) |-> lv[n]],
            !.unconfigured_pins = unconfigured_pins,
            !.error_logged = (Len(unconfigured_pins) > 0),
            !.steps = Append(s.steps, "in_pass")]

\* the loop of begin_asiconboard over the names that start with 'in':
\* lv[n] is the level p() reads on pin n
asic_in_pass(map, s, lv) ==
    LET ins == NamesWith(map, pfx_in)
        guarded == s.dieOnInputControlSwitchHigh
        flagged(n) == n \in ins /\ guarded /\ lv[n] = 1
        unconfigured_pins == SelectSeq(AllNames(map), flagged)
    IN  [s EXCEPT
            !.pinMode = [n \in DOMAIN s.pinMode |->
                IF n \in ins /\ ~flagged(n) THEN Pin_OUT ELSE s.pinMode[n]],
            !.sampled = [n \in (IF guarded THEN ins ELSE {}) |-> lv[n]],
            !.unconfigured_pins = unconfigured_pins,
            !.error_logged = (Len(unconfigured_pins) > 0),
            !.steps = Append(s.steps, "in_pass")]

\* begin_asiconboard that gives up once the guard has flagged a pin
begin_asiconboard_abort(map, s, lv) ==
    LET t == asic_in_pass(map, begin_alwaysOut(map, begin_inputs_all(map, s)), lv)
    IN  IF Len(t.unconfigured_pins) > 0
        THEN t
        ELSE project_clk_driven_by_RP2040(begin_muxPins(map, t), TRUE)

\* Pins.begin_asiconboard
begin_asiconboard(map, s, lv) ==
    project_clk_driven_by_RP2040(
        begin_muxPins(map,
            asic_in_pass(map, begin_alwaysOut(map, begin_inputs_all(map, s)), lv)),
        TRUE)

\* begin_asic_manual_inputs that drives the in* pins as begin_asiconboard does
begin_asic_manual_inputs_driving(map, s) ==
    project_clk_driven_by_RP2040(
        begin_muxPins(map,
            asic_in_pass(map, begin_alwaysOut(map, begin_inputs_all(map, s)),
                         [n \in NamesWith(map, pfx_in) |-> 0])),
        FALSE)

\* Pins.begin_asic_manual_inputs
begin_asic_manual_inputs(map, s) ==
    project_clk_driven_by_RP2040(
        begin_muxPins(map, begin_alwaysOut(map, begin_inputs_all(map, s))),
        FALSE)

\* the loop of begin_standalone with the pull of the in* pins left alone
standalone_pass_no_pull(map, s) ==
    LET outs == NamesWith(map, pfx_out)
    IN  [s EXCEPT
            !.pinMode = [n \in DOMAIN s.pinMode |->
                IF n \in outs THEN Pin_OUT ELSE s.pinMode[n]],
            !.steps = Append(s.steps, "out_in_pass")]

\* the loop of begin_standalone over the names that start with 'out' or 'in'
standalone_pass(map, s) ==
    LET outs == NamesWith(map, pfx_out)
        ins == NamesWith(map, pfx_in)
    IN  [s EXCEPT
            !.pinMode = [n \in DOMAIN s.pinMode |->
                IF n \in outs THEN Pin_OUT ELSE s.pinMode[n]],
            !.pinPull = [n \in DOMAIN s.pinPull |->
                IF n \in ins THEN PULL_DOWN ELSE s.pinPull[n]],
            !.steps = Append(s.steps, "out_in_pass")]

\* begin_standalone with the muxed pins made before the loop over out*/in*
begin_standalone_mux_first(map, s) ==
    project_clk_driven_by_RP2040(
        standalone_pass(map,
            begin_muxPins(map, begin_alwaysOut(map, begin_inputs_all(map, s)))),
        TRUE)

\* Pins.begin_standalone
begin_standalone(map, s) ==
    project_clk_driven_by_RP2040(
        begin_muxPins(map,
            standalone_pass(map, begin_alwaysOut(map, begin_inputs_all(map, s)))),
        TRUE)

\* the setter with the begin function called before _mode is assigned
mode_setter_late_assign(map, s, setTo, lv) ==
    LET m == IF setTo \notin startupMap THEN SAFE ELSE setTo
        t == [s EXCEPT !.steps = << >>, !.sampled = << >>,
                       !.created = {},
                       !.unconfigured_pins = << >>, !.error_logged = FALSE]
        u == CASE m = STANDALONE -> begin_standalone(map, t)
               [] m = ASIC_RP_CONTROL -> begin_asiconboard(map, t, lv)
               [] m = ASIC_MANUAL_INPUTS -> begin_asic_manual_inputs(map, t)
               [] OTHER -> begin_safe(map, t)
    IN  [u EXCEPT !._mode = m]

\* the setter with a value that is no key of startupMap taken as STANDALONE
mode_setter_fallback_standalone(map, s, setTo, lv) ==
    LET m == IF setTo \notin startupMap THEN STANDALONE ELSE setTo
        t == [s EXCEPT !._mode = m, !.steps = << >>, !.sampled = << >>,
                       !.created = {},
                       !.unconfigured_pins = << >>, !.error_logged = FALSE]
    IN  CASE m = STANDALONE -> begin_standalone(map, t)
          [] m = ASIC_RP_CONTROL -> begin_asiconboard(map, t, lv)
          [] m = ASIC_MANUAL_INPUTS -> begin_asic_manual_inputs(map, t)
          [] OTHER -> begin_safe(map, t)

\* Pins.mode (setter)
mode_setter(map, s, setTo, lv) ==
    LET m == IF setTo \notin startupMap THEN SAFE ELSE setTo
        t == [s EXCEPT !._mode = m, !.steps = << >>, !.sampled = << >>,
                       !.created = {},
                       !.unconfigured_pins = << >>, !.error_logged = FALSE]
    IN  CASE m = STANDALONE -> begin_standalone(map, t)
          [] m = ASIC_RP_CONTROL -> begin_asiconboard(map, t, lv)
          [] m = ASIC_MANUAL_INPUTS -> begin_asic_manual_inputs(map, t)
          [] OTHER -> begin_safe(map, t)

\* Pins.__init__ that leaves the mode argument aside and starts in SAFE
Pins_init_ignores_mode(map, mode, lv) ==
    LET mux == demoboard_uses_mux(map)
        s == [_mode |-> NoMode,
              dieOnInputControlSwitchHigh |-> TRUE,
              pinMode |-> IF mux THEN (muxName :> Pin_OUT) ELSE << >>,
              pinPull |-> IF mux THEN (muxName :> PULL_NONE) ELSE << >>,
              subMode |-> << >>,
              muxed |-> 0,
              created |-> {},
              steps |-> << >>,
              sampled |-> << >>,
              unconfigured_pins |-> << >>,
              error_logged |-> FALSE]
    IN  mode_setter(map, s, SAFE, lv)

\* Pins.__init__(self, mode=RPMode.SAFE)
Pins_init(map, mode, lv) ==
    LET mux == demoboard_uses_mux(map)
        s == [_mode |-> NoMode,
              dieOnInputControlSwitchHigh |-> TRUE,
              pinMode |-> IF mux THEN (muxName :> Pin_OUT) ELSE << >>,
              pinPull |-> IF mux THEN (muxName :> PULL_NONE) ELSE << >>,
              subMode |-> << >>,
              muxed |-> 0,
              created |-> {},
              steps |-> << >>,
              sampled |-> << >>,
              unconfigured_pins |-> << >>,
              error_logged |-> FALSE]
    IN  mode_setter(map, s, IF mode = DefaultArg THEN SAFE ELSE mode, lv)

\* ------------------------------------------------------------ port bytes
\* The RP2040 SIO registers the byte functions of util/platform.py use:
\*   0xd0000004 GPIO_IN       the level on every GPIO line
\*   0xd0000010 GPIO_OUT      the output latch of every GPIO
\*   0xd000001c GPIO_OUT_XOR  a write flips the latch bits that are 1
\* and, behind machine.Pin, the output enable of every GPIO (GPIO_OE).
\* A 32-bit word is the set of the positions of its 1 bits, bit g of a
\* register standing for GPIO g.

\* range(8) in list_port, _read_byte and _write_byte
PortBits == 8

RECURSIVE BitsFrom(_, _)
BitsFrom(n, g) ==
    IF n = 0 THEN {}
    ELSE (IF n % 2 = 1 THEN {g} ELSE {}) \cup BitsFrom(n \div 2, g + 1)

\* the word of the number n, cut to the 32 bits of mem32
Word(n) == BitsFrom(n, 0) \cap (0..31)

RECURSIVE Num(_)
\* the number of the word w
Num(w) ==
    IF w = {} THEN 0
    ELSE LET g == CHOOSE x \in w : TRUE IN 2^g + Num(w \ {g})

\* the masks of the three write functions
OutputMask == Word(123360)      \* 0x1E1E0
InputMask == Word(1973760)      \* 0x1E1E00
BidirMask == Word(534773760)    \* 0x1FE00000
\* 0xF, 0xF0 and 0xff
LowNibble == Word(15)
HighNibble == Word(240)
LowByte == Word(255)

\* a & b, a | b, a ^ b
BitAnd(a, b) == a \cap b
BitOr(a, b) == a \cup b
BitXor(a, b) == (a \ b) \cup (b \ a)

\* a << k and a >> k
Shl(a, k) == {g + k : g \in a}
Shr(a, k) == {g - k : g \in {x \in a : x >= k}}

\* the level on every line: a GPIO that is an output shows its latch, one that
\* is an input shows what the board drives onto the line
GPIO_IN_of(out, oe, ext) == BitXor(ext, BitAnd(BitXor(out, ext), oe))

\* a write of val to GPIO_OUT_XOR through mem32
xor_write(out, val) == BitXor(out, val \cap (0..31))

\* write_output_byte whose high nibble is shifted by 13, not 13-4
write_output_byte_shift13(out, val) ==
    LET v1 == BitOr(Shl(BitAnd(Word(val), LowNibble), 5),
                    Shl(BitAnd(Word(val), HighNibble), 13))
        v2 == BitAnd(BitXor(out, v1), OutputMask)
    IN  xor_write(out, v2)

\* platform.write_output_byte: the new value of GPIO_OUT
write_output_byte(out, val) ==
    LET v1 == BitOr(Shl(BitAnd(Word(val), LowNibble), 5),
                    Shl(BitAnd(Word(val), HighNibble), 13 - 4))
        v2 == BitAnd(BitXor(out, v1), OutputMask)
    IN  xor_write(out, v2)

\* platform.read_output_byte, gpio_in being the value read at 0xd0000004
read_output_byte(gpio_in) ==
    Num(BitOr(Shr(BitAnd(gpio_in, Shl(LowNibble, 13)), 13 - 4),
              Shr(BitAnd(gpio_in, Shl(LowNibble, 5)), 5)))

\* write_input_byte that writes the moved bits without the xor with GPIO_OUT
write_input_byte_no_xor(out, val) ==
    LET v1 == BitOr(Shl(BitAnd(Word(val), LowNibble), 9),
                    Shl(BitAnd(Word(val), HighNibble), 17 - 4))
    IN  xor_write(out, BitAnd(v1, InputMask))

\* platform.write_input_byte
write_input_byte(out, val) ==
    LET v1 == BitOr(Shl(BitAnd(Word(val), LowNibble), 9),
                    Shl(BitAnd(Word(val), HighNibble), 17 - 4))
        v2 == BitAnd(BitXor(out, v1), InputMask)
    IN  xor_write(out, v2)

\* platform.read_input_byte
read_input_byte(gpio_in) ==
    Num(BitOr(Shr(BitAnd(gpio_in, Shl(LowNibble, 17)), 17 - 4),
              Shr(BitAnd(gpio_in, Shl(LowNibble, 9)), 9)))

\* write_bidir_byte that writes the changed bits without the mask
write_bidir_byte_no_mask(out, val) ==
    LET v1 == Shl(Word(val), 21)
    IN  xor_write(out, BitXor(out, v1))

\* platform.write_bidir_byte
write_bidir_byte(out, val) ==
    LET v1 == Shl(Word(val), 21)
        v2 == BitAnd(BitXor(out, v1), BidirMask)
    IN  xor_write(out, v2)

\* platform.read_bidir_byte
read_bidir_byte(gpio_in) == Num(Shr(BitAnd(gpio_in, Shl(LowByte, 21)), 21))

\* the three port basenames
PortBases == {pfx_in, pfx_out, pfx_uio}

\* the attributes the Pins object has for port pins: the topology declares
\* in0..in7, out0..out7 and uio0..uio7 (as plain pins or as halves of pairs)
PortAttrs == {PortName(b, i) : b \in PortBases, i \in 0..(PortBits - 1)}

\* the GPIO each port pin is wired to, as the shifts of the byte functions
\* place the bits: out0-3 on 5-8, out4-7 on 13-16, in0-3 on 9-12, in4-7 on
\* 17-20, uio0-7 on 21-28
PortGpio(basename, i) ==
    CASE basename = pfx_out -> IF i < 4 THEN 5 + i ELSE 13 + (i - 4)
      [] basename = pfx_in -> IF i < 4 THEN 9 + i ELSE 17 + (i - 4)
      [] basename = pfx_uio -> 21 + i

gpio_of ==
    [n \in PortAttrs |->
        LET bi == CHOOSE x \in PortBases \X (0..(PortBits - 1)) :
                      PortName(x[1], x[2]) = n
        IN  PortGpio(bi[1], bi[2])]

\* pin(v): the write of a level to one pin sets its output latch
pin_write(out, name, v) ==
    IF v = 1 THEN out \cup {gpio_of[name]} ELSE out \ {gpio_of[name]}

\* pin(): the read of one pin
pin_read(gpio_in, name) == IF gpio_of[name] \in gpio_in THEN 1 ELSE 0

\* pin.mode = m
pin_mode_set(oe, name, m) ==
    IF m = Pin_OUT THEN oe \cup {gpio_of[name]} ELSE oe \ {gpio_of[name]}

\* Pins.list_port: the pins named basename0 .. basename7 that exist
list_port(basename) ==
    LET names == [i \in 1..PortBits |-> PortName(basename, i - 1)]
        hasattr(n) == n \in PortAttrs
    IN  SelectSeq(names, hasattr)

RECURSIVE read_bits(_, _, _)
read_bits(pinList, gpio_in, i) ==
    IF i = PortBits THEN 0
    ELSE (IF pin_read(gpio_in, pinList[i + 1]) # 0 THEN 2^i ELSE 0)
             + read_bits(pinList, gpio_in, i + 1)

\* _read_byte that sets bit 7-i for pin i
read_byte_reversed(pinList, gpio_in) ==
    LET rev == [i \in 1..Len(pinList) |-> pinList[Len(pinList) + 1 - i]]
    IN  read_bits(rev, gpio_in, 0)

\* Pins._read_byte
read_byte(pinList, gpio_in) == read_bits(pinList, gpio_in, 0)

RECURSIVE write_bits(_, _, _, _)
write_bits(pinList, v, out, i) ==
    IF i = PortBits THEN out
    ELSE write_bits(pinList, v,
                    pin_write(out, pinList[i + 1],
                              IF BitAnd(Word(v), Word(2^i)) # {} THEN 1 ELSE 0),
                    i + 1)

\* Pins._write_byte: the new value of the latches
write_byte(pinList, value, out) == write_bits(pinList, value, out, 0)

RECURSIVE setmode_bits(_, _, _, _, _)
setmode_bits(pinslist, modelist, oe, i, max_idx) ==
    IF i = max_idx THEN oe
    ELSE setmode_bits(pinslist, modelist,
                      pin_mode_set(oe, pinslist[i + 1], modelist[i + 1]),
                      i + 1, max_idx)

\* Pins._setmode_on_pins: the new output enables
setmode_on_pins(pinslist, modelist, oe) ==
    LET max_idx == IF Len(modelist) < Len(pinslist)
                   THEN Len(modelist) ELSE Len(pinslist)
    IN  setmode_bits(pinslist, modelist, oe, 0, max_idx)

\* Pins.output_byte, input_byte and bidir_byte (getters): rp is
\* platform.IsRP2040
byte_get(basename, rp, gpio_in) ==
    IF rp
    THEN CASE basename = pfx_out -> read_output_byte(gpio_in)
           [] basename = pfx_in -> read_input_byte(gpio_in)
           [] basename = pfx_uio -> read_bidir_byte(gpio_in)
    ELSE read_byte(list_port(basename), gpio_in)

\* Pins.output_byte, input_byte and bidir_byte (setters)
byte_set(basename, rp, out, val) ==
    IF rp
    THEN CASE basename = pfx_out -> write_output_byte(out, val)
           [] basename = pfx_in -> write_input_byte(out, val)
           [] basename = pfx_uio -> write_bidir_byte(out, val)
    ELSE write_byte(list_port(basename), val, out)

\* Pins.output_mode, input_mode and bidir_mode (setters)
mode_list_set(basename, oe, pinmodes) ==
    setmode_on_pins(list_port(basename), pinmodes, oe)

\* the output enables of the port pins after Pins(mode): out* outputs in
\* STANDALONE, in* outputs in ASIC_RP_CONTROL unless the line reads high
port_enables(mode, ext) ==
    CASE mode = STANDALONE -> OutputMask
      [] mode = ASIC_RP_CONTROL -> InputMask \ ext
      [] OTHER -> {}

\* -------------------------------------------------------------- muxed pins
\* MuxControl and MuxedPin are outside the sources at hand; they follow the
\* contract of the specification: the controller's selection is index 0,
\* index 1 or administration, and an access to a half of a pair switches the
\* selection to the index of the half if it is not there already, uses the
\* shared pin in the mode recorded for the half, and leaves the selection.
Administration == "administration"
Selection(idx) == IF idx = 0 THEN "index 0" ELSE "index 1"
Selections == {Selection(0), Selection(1), Administration}

\* an access that drives the selector line on every call
sub_pin_access_reselect(ctrl, pair, idx) ==
    LET half == muxed_pairsTT04[pair][idx + 1]
    IN  [ctrl |-> [ctrl EXCEPT
                      !.selected = Selection(idx),
                      !.pinMode[pair] = muxed_pinmode_mapTable[ctrl.rpmode][half]],
         toggles |-> 1]

\* MuxedPin.<half>(): the controller after the access, and the number of
\* writes made to the selector line
sub_pin_access(ctrl, pair, idx) ==
    LET half == muxed_pairsTT04[pair][idx + 1]
    IN  [ctrl |-> [ctrl EXCEPT
                      !.selected = Selection(idx),
                      !.pinMode[pair] = muxed_pinmode_mapTable[ctrl.rpmode][half]],
         toggles |-> IF ctrl.selected = Selection(idx) THEN 0 ELSE 1]

\* ---------------------------------------------------------------- PIOClock
\* A PIOClock object is the record [freq, _current_pio]; the hardware it
\* works on is the record
\*   active   PIO state machine 0 is running
\*   tx       the delay count put into the state machine, NoDelay if none was
\*   pin      what drives the clock pin: Pin_IN, Pin_OUT or the state machine
\*   sysclk   the system clock: as at reset, or the frequency set
NoStateMachine == "None"
StateMachine0 == "StateMachine(0)"
NoDelay == "None"
PIO_pin == "PIO"
ResetClock == "reset"
PIOSystemClock == 100000000

\* the delay count start puts: int(500 * (2 / freq) - 2)
delay_count(freq) == (1000 \div freq) - 2

\* PIOClock.__init__(pin)
PIOClock_init == [freq |-> 0, _current_pio |-> NoStateMachine]

\* PIOClock.stop
PIOClock_stop(c, m) ==
    IF c._current_pio = NoStateMachine \/ c.freq = 0
    THEN [c |-> c, m |-> m]
    ELSE [c |-> [c EXCEPT !.freq = 0, !._current_pio = NoStateMachine],
          m |-> [m EXCEPT !.active = FALSE, !.pin = Pin_IN]]

\* PIOClock.start(freq_hz)
PIOClock_start(c, m, freq_hz) ==
    LET s == PIOClock_stop([c EXCEPT !.freq = freq_hz], m)
    IN  IF s.c.freq <= 0
        THEN s
        ELSE [c |-> [s.c EXCEPT !._current_pio = StateMachine0],
              m |-> [s.m EXCEPT
                        !.sysclk = PIOSystemClock,
                        !.pin = IF s.c._current_pio = NoStateMachine
                                THEN PIO_pin ELSE @,
                        !.tx = delay_count(s.c.freq),
                        !.active = TRUE]]

\* ------------------------------------------------------------------- state
VARIABLES
    PCB,              \* DemoboardDetect.PCB
    CarrierPresent,   \* DemoboardDetect.CarrierPresent
    GPIOMap,          \* ttboard.pins.gpio_map.GPIOMap, the installed topology
    detection_result, \* main.py: '' or '(best guess)'
    pins,             \* the Pins object of the DemoBoard
    pc,               \* how far main.py has come: boot, detected, running
    clientOps,        \* per-pin changes made since the latest mode set
    call,             \* the latest call: its arguments, what it read, its result
    IsRP2040,         \* platform.IsRP2040
    GPIO_OUT,         \* the output latches (register 0xd0000010)
    GPIO_OE,          \* the output enables machine.Pin sets
    GPIO_EXT,         \* the levels the board drives onto the lines
    io,               \* the port and byte under test, the latest byte call
    muxCtrl,          \* the MuxControl: its selection, the shared pins' modes
    access,           \* the latest call on a half of a muxed pair
    clock,            \* the PIOClock object
    machine,          \* PIO state machine 0, the clock pin and the system clock
    clockCall         \* the latest PIOClock call: its argument, the state before it

boardVars == <<PCB, CarrierPresent, GPIOMap, detection_result, pins, pc, clientOps, call>>
ioVars == <<IsRP2040, GPIO_OUT, GPIO_OE, GPIO_EXT, io>>
muxVars == <<muxCtrl, access>>
clockVars == <<clock, machine, clockCall>>

vars == <<PCB, CarrierPresent, GPIOMap, detection_result, pins, pc, clientOps, call,
          IsRP2040, GPIO_OUT, GPIO_OE, GPIO_EXT, io, muxCtrl, access,
          clock, machine, clockCall>>

Unread == "unread"

NoCall ==
    [op |-> "none", setTo |-> NoMode, again |-> FALSE, sameLevels |-> FALSE,
     dirty |-> FALSE, dbversion |-> Unread, prevMap |-> NoMap,
     mux_0 |-> Unread, mux_1 |-> Unread, crst |-> Unread, cena |-> Unread,
     ret |-> "None", pullups |-> FALSE, raised |-> FALSE]

NoPins ==
    [_mode |-> NoMode, dieOnInputControlSwitchHigh |-> TRUE,
     pinMode |-> << >>, pinPull |-> << >>, subMode |-> << >>, muxed |-> 0,
     created |-> {}, steps |-> << >>, sampled |-> << >>, unconfigured_pins |-> << >>,
     error_logged |-> FALSE]

\* no byte call made yet
NoIo ==
    [mode |-> NoMode, port |-> << >>, val |-> 0, op |-> "none", ret |-> "None",
     wrote |-> FALSE, buffered |-> FALSE]

\* no MuxControl constructed yet
NoMuxCtrl == [rpmode |-> NoMode, selected |-> "None", pinMode |-> << >>]

\* no call on a half of a muxed pair made yet
NoAccess ==
    [op |-> "none", pin |-> << >>, idx |-> 0, toggles |-> 0, again |-> FALSE,
     before |-> 0, ret |-> "None"]

\* main.py before the detection
InitBoard ==
    /\ PCB = UNKNOWN
    /\ CarrierPresent = NoCarrier
    /\ GPIOMap = NoMap
    /\ detection_result = "(best guess)"
    /\ pins = NoPins
    /\ pc = "boot"
    /\ clientOps = 0
    /\ call = NoCall

\* no byte call in progress
IdleIO ==
    /\ IsRP2040 = FALSE
    /\ GPIO_OUT = {}
    /\ GPIO_OE = {}
    /\ GPIO_EXT = {}
    /\ io = NoIo

\* no muxed pin in use
IdleMux ==
    /\ muxCtrl = NoMuxCtrl
    /\ access = NoAccess

\* no PIOClock in use
NoClockCall == [op |-> "none", freq_hz |-> 0, before |-> [freq |-> 0, active |-> FALSE]]

NoMachine == [active |-> FALSE, tx |-> NoDelay, pin |-> Pin_IN, sysclk |-> ResetClock]

IdleClock ==
    /\ clock = PIOClock_init
    /\ machine = NoMachine
    /\ clockCall = NoClockCall

Init ==
    /\ InitBoard
    /\ IdleIO
    /\ IdleMux
    /\ IdleClock

\* the levels a mode set into m reads: one per in* pin when the guard samples
Levels(map, s, m) ==
    IF m = ASIC_RP_CONTROL /\ s.dieOnInputControlSwitchHigh
    THEN [NamesWith(map, pfx_in) -> {0, 1}]
    ELSE {<< >>}

\* main.py, "Detect the demoboard version": DemoboardDetect.probe() and the
\* message built from its result
Boot ==
    /\ pc = "boot"
    /\ \E mux_0 \in Samples3, mux_1 \in Samples3, crst_lvl \in {0, 1}, cena_lvl \in {0, 1} :
        LET d == [PCB |-> PCB, CarrierPresent |-> CarrierPresent,
                  GPIOMap |-> GPIOMap, raised |-> FALSE]
            r == probe(d, mux_0, mux_1, crst_lvl, cena_lvl)
        IN  \* the pull lines are read only when probe_pullups is entered
            /\ (~r.pullups => crst_lvl = 0 /\ cena_lvl = 0)
            /\ PCB' = r.d.PCB
            /\ CarrierPresent' = r.d.CarrierPresent
            /\ GPIOMap' = r.d.GPIOMap
            /\ detection_result' = IF r.ret THEN "" ELSE "(best guess)"
            /\ call' = [NoCall EXCEPT
                    !.op = "probe", !.mux_0 = mux_0, !.mux_1 = mux_1,
                    !.crst = IF r.pullups THEN crst_lvl ELSE Unread,
                    !.cena = IF r.pullups THEN cena_lvl ELSE Unread,
                    !.ret = r.ret, !.pullups = r.pullups, !.raised = r.d.raised]
    /\ pc' = "detected"
    /\ UNCHANGED <<pins, clientOps>>
    /\ UNCHANGED <<ioVars, muxVars, clockVars>>

\* main.py startup(): DemoBoard(mode) constructs Pins(mode); Pins() takes the
\* default of the mode parameter
Construct ==
    /\ pc = "detected"
    /\ ~call.raised
    /\ \E mode \in startupMap \cup {INVALID_MODE, DefaultArg} :
        \E lv \in Levels(GPIOMap, NoPins,
                         IF mode \in startupMap THEN mode ELSE SAFE) :
            /\ pins' = Pins_init(GPIOMap, mode, lv)
            /\ call' = [NoCall EXCEPT !.op = "init", !.setTo = mode]
    /\ pc' = "running"
    /\ UNCHANGED <<PCB, CarrierPresent, GPIOMap, detection_result, clientOps>>
    /\ UNCHANGED <<ioVars, muxVars, clockVars>>

\* tt.mode = setTo
ModeSet ==
    /\ pc = "running"
    /\ demoboard_uses_mux(GPIOMap) =>
           pins.muxed + Cardinality(DOMAIN muxed_pairs(GPIOMap)) <= MaxMuxed
    /\ \E setTo \in startupMap \cup {INVALID_MODE} :
        LET m == IF setTo \in startupMap THEN setTo ELSE SAFE
        IN  \E lv \in Levels(GPIOMap, pins, m) :
                /\ pins' = mode_setter(GPIOMap, pins, setTo, lv)
                /\ call' = [NoCall EXCEPT
                        !.op = "mode", !.setTo = setTo,
                        !.again = (call.op \in {"init", "mode"} /\ m = pins._mode),
                        !.sameLevels = (pins'.sampled = pins.sampled),
                        !.dirty = (clientOps > 0)]
    /\ clientOps' = 0
    /\ UNCHANGED <<PCB, CarrierPresent, GPIOMap, detection_result, pc>>
    /\ UNCHANGED <<ioVars, muxVars, clockVars>>

\* tt.<name>.mode = m
SetPinMode ==
    /\ pc = "running"
    /\ clientOps < MaxClientOps
    /\ \E n \in DOMAIN pins.pinMode, m \in PinModes :
        pins' = [pins EXCEPT !.pinMode[n] = m]
    /\ clientOps' = clientOps + 1
    /\ call' = [NoCall EXCEPT !.op = "pin"]
    /\ UNCHANGED <<PCB, CarrierPresent, GPIOMap, detection_result, pc>>
    /\ UNCHANGED <<ioVars, muxVars, clockVars>>

\* tt.<name>.pull = p
SetPinPull ==
    /\ pc = "running"
    /\ clientOps < MaxClientOps
    /\ \E n \in DOMAIN pins.pinPull, p \in Pulls :
        pins' = [pins EXCEPT !.pinPull[n] = p]
    /\ clientOps' = clientOps + 1
    /\ call' = [NoCall EXCEPT !.op = "pin"]
    /\ UNCHANGED <<PCB, CarrierPresent, GPIOMap, detection_result, pc>>
    /\ UNCHANGED <<ioVars, muxVars, clockVars>>

\* DemoboardDetect.force_detection(dbversion), called before the DemoBoard is
\* constructed: instead of the probe, after it, or after an earlier override
ForceDetection ==
    /\ pc \in {"boot", "detected"}
    /\ \E dbversion \in {UNKNOWN, TT04, TT06} :
        LET d == [PCB |-> PCB, CarrierPresent |-> CarrierPresent,
                  GPIOMap |-> GPIOMap, raised |-> FALSE]
            r == force_detection(d, dbversion)
        IN  /\ PCB' = r.PCB
            /\ CarrierPresent' = r.CarrierPresent
            /\ GPIOMap' = r.GPIOMap
            /\ call' = [NoCall EXCEPT
                    !.op = "force", !.dbversion = dbversion,
                    !.prevMap = GPIOMap, !.raised = r.raised]
    /\ UNCHANGED <<detection_result, pins, pc, clientOps>>
    /\ UNCHANGED <<ioVars, muxVars, clockVars>>

\* the detector alone: the probe at boot and the forced override
DetectNext ==
    \/ Boot
    \/ ForceDetection

SpecDetect == Init /\ [][DetectNext]_vars

Next ==
    \/ Boot
    \/ Construct
    \/ ModeSet
    \/ SetPinMode
    \/ SetPinPull

Spec == Init /\ [][Next]_vars

\* --------------------------------------------------- port bytes: the calls
\* the values the output latches and the lines may have when the calls start
LatchPatterns == {Word(0), Word(715827882)}    \* 0, 0x2AAAAAAA
LinePatterns == {Word(252645135)}              \* 0x0F0F0F0F

\* what GPIO_IN reads now
GPIO_IN == GPIO_IN_of(GPIO_OUT, GPIO_OE, GPIO_EXT)

\* a Pins object constructed in one of the four modes on either platform, and
\* the arguments of the byte calls made on it: a port and a byte
InitIO ==
    /\ InitBoard
    /\ IdleMux
    /\ IsRP2040 \in BOOLEAN
    /\ GPIO_OUT \in LatchPatterns
    /\ GPIO_EXT \in LinePatterns
    /\ \E mode \in startupMap, port \in PortBases, val \in 0..255 :
        /\ GPIO_OE = port_enables(mode, GPIO_EXT)
        /\ io = [NoIo EXCEPT !.mode = mode, !.port = port, !.val = val]
    /\ IdleClock

\* tt.output_byte = val, tt.input_byte = val, tt.bidir_byte = val
WriteByte ==
    /\ GPIO_OUT' = byte_set(io.port, IsRP2040, GPIO_OUT, io.val)
    /\ io' = [io EXCEPT
            !.op = "write", !.ret = "None", !.wrote = TRUE,
            !.buffered = @ \/ (\A i \in 0..(PortBits - 1) :
                PortGpio(io.port, i) \notin GPIO_OE)]
    /\ UNCHANGED <<IsRP2040, GPIO_OE, GPIO_EXT, boardVars, muxVars, clockVars>>

\* tt.output_byte, tt.input_byte, tt.bidir_byte
ReadByte ==
    /\ io' = [io EXCEPT
            !.op = "read", !.ret = byte_get(io.port, IsRP2040, GPIO_IN)]
    /\ UNCHANGED <<IsRP2040, GPIO_OUT, GPIO_OE, GPIO_EXT, boardVars, muxVars, clockVars>>

\* tt.output_mode = [m] * 8, tt.input_mode = [m] * 8, tt.bidir_mode = [m] * 8
SetPortMode ==
    /\ \E m \in PinModes :
        /\ GPIO_OE' = mode_list_set(io.port, GPIO_OE, [i \in 1..PortBits |-> m])
        /\ io' = [io EXCEPT !.op = "mode", !.ret = m]
    /\ UNCHANGED <<IsRP2040, GPIO_OUT, GPIO_EXT, boardVars, muxVars, clockVars>>

IONext ==
    \/ WriteByte
    \/ ReadByte
    \/ SetPortMode

SpecIO == InitIO /\ [][IONext]_vars

\* ------------------------------------------- port bytes: the fast-path writes
\* the values GPIO_OUT may hold when a fast-path write is made: no bit, every
\* bit, the odd bits, the even bits, and a mix of nibbles
RegisterPatterns ==
    {Word(0), 0..31, Word(715827882), Word(1431655765), Word(252645135)}

\* an RP2040 whose output register holds one of the patterns, and the
\* arguments of the write made on it: a port and a byte
InitWrite ==
    /\ InitBoard
    /\ IdleMux
    /\ IsRP2040 = TRUE
    /\ GPIO_OUT \in RegisterPatterns
    /\ GPIO_OE = {}
    /\ GPIO_EXT = {}
    /\ \E port \in PortBases, val \in 0..255 :
        io = [NoIo EXCEPT !.port = port, !.val = val]
    /\ IdleClock

\* write_output_byte(val), write_input_byte(val), write_bidir_byte(val)
FastWrite ==
    /\ GPIO_OUT' = byte_set(io.port, TRUE, GPIO_OUT, io.val)
    /\ io' = [io EXCEPT !.op = "write", !.wrote = TRUE]
    /\ UNCHANGED <<IsRP2040, GPIO_OE, GPIO_EXT, boardVars, muxVars, clockVars>>

WriteNext == FastWrite

SpecWrite == InitWrite /\ [][WriteNext]_vars

\* --------------------------------------------------- muxed pins: the calls
\* a Pins object constructed on the TT04 map in one of the four modes; the
\* selection and the modes of the shared pins are what earlier calls left
InitMux ==
    /\ InitBoard
    /\ IdleIO
    /\ \E rpmode \in startupMap, sel \in Selections,
          pm \in [DOMAIN muxed_pairsTT04 -> PinModes] :
        muxCtrl = [rpmode |-> rpmode, selected |-> sel, pinMode |-> pm]
    /\ access = NoAccess
    /\ IdleClock

\* tt.<half>(): a read of one half of a muxed pair
SubPinRead ==
    /\ \E pair \in DOMAIN muxed_pairsTT04, idx \in {0, 1}, level \in {0, 1} :
        LET r == sub_pin_access(muxCtrl, pair, idx)
        IN  /\ muxCtrl' = r.ctrl
            /\ access' = [op |-> "read", pin |-> pair, idx |-> idx,
                          toggles |-> r.toggles,
                          again |-> (access.op = "read" /\ access.pin = pair
                                        /\ access.idx = idx),
                          before |-> access.toggles, ret |-> level]
    /\ UNCHANGED <<boardVars, ioVars, clockVars>>

\* tt.<half>(v): a write to one half of a muxed pair
SubPinWrite ==
    /\ \E pair \in DOMAIN muxed_pairsTT04, idx \in {0, 1}, v \in {0, 1} :
        LET r == sub_pin_access(muxCtrl, pair, idx)
        IN  /\ muxCtrl' = r.ctrl
            /\ access' = [op |-> "write", pin |-> pair, idx |-> idx,
                          toggles |-> r.toggles, again |-> FALSE,
                          before |-> access.toggles, ret |-> "None"]
    /\ UNCHANGED <<boardVars, ioVars, clockVars>>

\* the controller's select_administration()
SelectAdministration ==
    /\ muxCtrl' = [muxCtrl EXCEPT !.selected = Administration]
    /\ access' = [NoAccess EXCEPT
            !.op = "administration",
            !.toggles = IF muxCtrl.selected = Administration THEN 0 ELSE 1]
    /\ UNCHANGED <<boardVars, ioVars, clockVars>>

MuxNext ==
    \/ SubPinRead
    \/ SubPinWrite
    \/ SelectAdministration

SpecMux == InitMux /\ [][MuxNext]_vars

\* ------------------------------------------------------- PIOClock: the calls
\* the frequencies start is called with: a negative one, 0, and 1..MaxFreq Hz
FreqArgs == -1..MaxFreq

\* a PIOClock made on the RP2040 for a pin that is an input or an output
InitClock ==
    /\ InitBoard
    /\ IdleMux
    /\ IsRP2040 = TRUE
    /\ GPIO_OUT = {}
    /\ GPIO_OE = {}
    /\ GPIO_EXT = {}
    /\ io = NoIo
    /\ clock = PIOClock_init
    /\ \E mode \in PinModes : machine = [NoMachine EXCEPT !.pin = mode]
    /\ clockCall = NoClockCall

\* clock.start(freq_hz)
ClockStart ==
    /\ \E freq_hz \in FreqArgs :
        LET r == PIOClock_start(clock, machine, freq_hz)
        IN  /\ clock' = r.c
            /\ machine' = r.m
            /\ clockCall' = [op |-> "start", freq_hz |-> freq_hz,
                             before |-> [freq |-> clock.freq,
                                         active |-> machine.active]]
    /\ UNCHANGED <<boardVars, ioVars, muxVars>>

\* clock.stop()
ClockStop ==
    /\ LET r == PIOClock_stop(clock, machine)
       IN  /\ clock' = r.c
           /\ machine' = r.m
           /\ clockCall' = [op |-> "stop", freq_hz |-> 0,
                            before |-> [freq |-> clock.freq,
                                        active |-> machine.active]]
    /\ UNCHANGED <<boardVars, ioVars, muxVars>>

ClockNext ==
    \/ ClockStart
    \/ ClockStop

SpecClock == InitClock /\ [][ClockNext]_vars

TypeOK ==
    /\ PCB \in {UNKNOWN, TT04, TT06}
    /\ GPIOMap \in {NoMap, GPIOMapTT04, GPIOMapTT06}
    /\ pc \in {"boot", "detected", "running"}
    /\ clientOps \in 0..MaxClientOps
    /\ pins._mode \in startupMap \cup {NoMode}
    /\ pins.muxed <= MaxMuxed

\* ------------------------------------------------------------------ claims
\* a mode transition (by construction or by the setter) has just completed
JustSet == call.op \in {"init", "mode"}

\* the names bound to a pin of the Pins object that start with prefix
Bound(prefix) == {n \in DOMAIN pins.pinMode : StartsWith(n, prefix)}

\* every name, plain or half of a muxed pair, that starts with prefix
Named(prefix) ==
    {n \in DOMAIN pins.pinMode \cup DOMAIN pins.subMode : StartsWith(n, prefix)}

\* the mode of the pin a name stands for: the pin's own, or for the half of a
\* muxed pair the mode recorded for that half
ModeOf(n) == IF n \in DOMAIN pins.pinMode THEN pins.pinMode[n] ELSE pins.subMode[n]

\* C1: after a transition into ASIC_RP_CONTROL every in* pin was sampled; one
\* that sampled high is still an input and is named in the logged list of
\* unconfigured pins, one that sampled low is an output.
C1_ContentionGuard ==
    (JustSet /\ pins._mode = ASIC_RP_CONTROL) =>
        /\ DOMAIN pins.sampled = Bound(pfx_in)
        /\ \A n \in Bound(pfx_in) :
            IF pins.sampled[n] = 1
            THEN /\ pins.pinMode[n] = Pin_IN
                 /\ n \in Range(pins.unconfigured_pins)
                 /\ pins.error_logged
            ELSE pins.pinMode[n] = Pin_OUT

\* C1 witness: a transition into ASIC_RP_CONTROL with one in* pin high and
\* another low
C1_Witness ==
    /\ JustSet
    /\ pins._mode = ASIC_RP_CONTROL
    /\ \E n \in Bound(pfx_in), k \in Bound(pfx_in) :
        pins.sampled[n] = 1 /\ pins.sampled[k] = 0

\* C2: after a completed transition an out* pin is an output only in
\* STANDALONE, an in* pin is an output only in ASIC_RP_CONTROL, and in SAFE and
\* ASIC_MANUAL_INPUTS every in* and out* pin is an input.
C2_DirectionTable ==
    JustSet =>
        /\ \A n \in Named(pfx_out) : ModeOf(n) = Pin_OUT => pins._mode = STANDALONE
        /\ \A n \in Named(pfx_in) : ModeOf(n) = Pin_OUT => pins._mode = ASIC_RP_CONTROL
        /\ pins._mode \in {SAFE, ASIC_MANUAL_INPUTS} =>
               \A n \in Named(pfx_in) \cup Named(pfx_out) : ModeOf(n) = Pin_IN

\* C2 witness: a mode set into ASIC_MANUAL_INPUTS on the board whose out3 is
\* half of a muxed pair
C2_Witness ==
    /\ call.op = "mode"
    /\ pins._mode = ASIC_MANUAL_INPUTS
    /\ out3 \in Named(pfx_out)
    /\ Named(pfx_in) # {}

C4_MuxTestDecides ==
    (call.op = "probe" /\ call.mux_0 # call.mux_1) =>
        /\ PCB = TT04
        /\ GPIOMap = GPIOMapTT04
        /\ call.ret = TRUE
        /\ ~call.pullups

\* C4 witness: a probe whose two sample triples differ
C4_Witness == call.op = "probe" /\ call.mux_0 # call.mux_1

\* C5: when the mux samples are identical and both pull-signature lines read
\* low, probe() records TT06 with the carrier present, installs the TT06 map
\* and returns True.
C5_PullSignature ==
    (call.op = "probe" /\ call.mux_0 = call.mux_1 /\ call.crst = 0 /\ call.cena = 0) =>
        /\ PCB = TT06
        /\ CarrierPresent = "True"
        /\ GPIOMap = GPIOMapTT06
        /\ call.ret = TRUE

\* C5 witness: identical mux samples, both pull lines low
C5_Witness ==
    call.op = "probe" /\ call.mux_0 = call.mux_1 /\ call.crst = 0 /\ call.cena = 0

\* C6: when the mux samples are identical and the pull lines do not both read
\* low, probe() installs the TT06 map, records TT06 and returns False, and
\* main.py reports the result as a best guess.
C6_DefaultGuess ==
    (call.op = "probe" /\ call.mux_0 = call.mux_1
        /\ ~(call.crst = 0 /\ call.cena = 0)) =>
        /\ GPIOMap = GPIOMapTT06
        /\ PCB = TT06
        /\ call.ret = FALSE
        /\ detection_result = "(best guess)"

\* C6 witness: identical mux samples, both pull lines high
C6_Witness ==
    call.op = "probe" /\ call.mux_0 = call.mux_1 /\ call.crst = 1 /\ call.cena = 1

\* C7: whatever the probe responses, probe() returns without raising, PCB is
\* TT04 or TT06 and the installed map is the one of PCB.
C7_ProbeTotal ==
    call.op = "probe" =>
        /\ ~call.raised
        /\ PCB \in {TT04, TT06}
        /\ GPIOMap = mapToUse[PCB]

\* C7 witness: a probe in which exactly one pull-signature line reads high
\* (and one in which the mux test decided is reached as C4's witness)
C7_Witness ==
    call.op = "probe" /\ call.pullups /\ call.crst # call.cena

\* the configuration a transition leaves: mode and pull of every pin, and the
\* mode recorded for each half of a muxed pair
SameConfig ==
    /\ pins'.pinMode = pins.pinMode
    /\ pins'.pinPull = pins.pinPull
    /\ pins'.subMode = pins.subMode

\* C8 as stated: setting the mode that was set just before leaves the same
\* configuration as the first set did.
C8_Idempotent ==
    [][(call'.op = "mode" /\ call'.again) => SameConfig]_vars

\* C8 as amended: setting the mode that was set just before leaves the same
\* configuration, for ASIC_RP_CONTROL provided the in* pins sample the same
\* levels in both transitions.
C8_IdempotentSameLevels ==
    [][(call'.op = "mode" /\ call'.again /\ call'.sameLevels) => SameConfig]_vars

\* C8 witness: ASIC_RP_CONTROL set twice in succession with the same samples,
\* one of them high
C8_Witness ==
    /\ call.op = "mode"
    /\ call.again
    /\ call.sameLevels
    /\ pins._mode = ASIC_RP_CONTROL
    /\ \E n \in DOMAIN pins.sampled : pins.sampled[n] = 1
    /\ DOMAIN pins.subMode # {}

\* C9: a transition in which the guard flagged a pin still ran the mux step and
\* the clock step after the in* pass, recorded ASIC_RP_CONTROL, made the clock
\* pin an output and kept the outputs it had made.
C9_NeverPartial ==
    (JustSet /\ Len(pins.unconfigured_pins) > 0) =>
        /\ pins._mode = ASIC_RP_CONTROL
        /\ pins.steps = <<"begin_inputs_all", "_begin_alwaysOut", "in_pass",
                          "_begin_muxPins", "project_clk_driven_by_RP2040">>
        /\ pins.pinMode[rp_projclk] = Pin_OUT
        /\ demoboard_uses_mux(GPIOMap) => DOMAIN pins.subMode = MuxHalves
        /\ \A n \in Bound(pfx_in) :
               n \notin Range(pins.unconfigured_pins) => pins.pinMode[n] = Pin_OUT
        /\ \A n \in always_outputs(GPIOMap) : pins.pinMode[n] = Pin_OUT

\* C9 witness: a transition on the board with muxed pins in which the guard
\* flagged one in* pin and passed another
C9_Witness ==
    /\ JustSet
    /\ Len(pins.unconfigured_pins) > 0
    /\ demoboard_uses_mux(GPIOMap)
    /\ \E n \in Bound(pfx_in) : n \notin Range(pins.unconfigured_pins)

C11_ClockPinDirection ==
    JustSet =>
        /\ pins._mode \in {ASIC_RP_CONTROL, STANDALONE} =>
               pins.pinMode[rp_projclk] = Pin_OUT
        /\ pins._mode \in {ASIC_MANUAL_INPUTS, SAFE} =>
               pins.pinMode[rp_projclk] = Pin_IN

\* C11 witness: a mode set into SAFE, which has no clock pass of its own, after
\* a client changed a pin
C11_Witness ==
    /\ call.op = "mode"
    /\ call.dirty
    /\ pins._mode = SAFE
    /\ rp_projclk \in DOMAIN pins.pinMode

\* C12: after a transition into STANDALONE every out* pin (plain or half of a
\* muxed pair) is an output and every in* pin is an input with pull-down.
C12_Standalone ==
    (JustSet /\ pins._mode = STANDALONE) =>
        /\ \A n \in Named(pfx_out) : ModeOf(n) = Pin_OUT
        /\ \A n \in Bound(pfx_in) :
               pins.pinMode[n] = Pin_IN /\ pins.pinPull[n] = PULL_DOWN

\* C12 witness: a mode set into STANDALONE on the board whose out3 is half of
\* a muxed pair, after a client changed a pin
C12_Witness ==
    /\ call.op = "mode"
    /\ call.dirty
    /\ pins._mode = STANDALONE
    /\ out3 \in DOMAIN pins.subMode
    /\ Bound(pfx_in) # {}

TransitionSteps(m) ==
    CASE m = SAFE ->
            <<"begin_inputs_all", "_begin_alwaysOut", "_begin_muxPins">>
      [] m = ASIC_RP_CONTROL ->
            <<"begin_inputs_all", "_begin_alwaysOut", "in_pass",
              "_begin_muxPins", "project_clk_driven_by_RP2040">>
      [] m = ASIC_MANUAL_INPUTS ->
            <<"begin_inputs_all", "_begin_alwaysOut",
              "_begin_muxPins", "project_clk_driven_by_RP2040">>
      [] m = STANDALONE ->
            <<"begin_inputs_all", "_begin_alwaysOut", "out_in_pass",
              "_begin_muxPins", "project_clk_driven_by_RP2040">>

\* the configuration the transition into mode m gives the declared pins
TransitionApplied(m) ==
    /\ pins.steps = TransitionSteps(m)
    /\ Range(AllNames(GPIOMap)) \subseteq DOMAIN pins.pinMode
    /\ \A n \in Named(pfx_out) : (ModeOf(n) = Pin_OUT) <=> (m = STANDALONE)
    /\ \A n \in Bound(pfx_in) :
        /\ (pins.pinMode[n] = Pin_OUT) <=>
               (m = ASIC_RP_CONTROL /\ pins.sampled[n] = 0)
        /\ (pins.pinPull[n] = PULL_DOWN) <=> (m = STANDALONE)
    /\ (pins.pinMode[rp_projclk] = Pin_OUT) <=> (m \in {ASIC_RP_CONTROL, STANDALONE})
    /\ \A n \in always_outputs(GPIOMap) : pins.pinMode[n] = Pin_OUT

\* C16: a Pins object constructed without a mode argument is in SAFE after
\* construction; one constructed with one of the four modes is in that mode,
\* with that mode's transition applied to every pin.
C16_InitialState ==
    call.op = "init" =>
        /\ call.setTo = DefaultArg =>
               pins._mode = SAFE /\ TransitionApplied(SAFE)
        /\ call.setTo \in startupMap =>
               pins._mode = call.setTo /\ TransitionApplied(call.setTo)

\* C16 witness: a construction without the argument, and (as C16_WitnessExplicit
\* below states) one with an explicit mode other than SAFE
C16_Witness ==
    /\ call.op = "init"
    /\ call.setTo = DefaultArg
    /\ pins._mode = SAFE
    /\ DOMAIN pins.pinMode # {}

\* a construction with the explicit mode STANDALONE
C16_WitnessExplicit ==
    call.op = "init" /\ call.setTo = STANDALONE /\ pins._mode = STANDALONE

\* C17: a mode transition that follows construction binds no name to a newly
\* created pin object and registers no further MuxedPin with the controller:
\* the controller holds one MuxedPin per declared pair.
C17_CreatedOnce ==
    call.op = "mode" =>
        /\ pins.created = {}
        /\ pins.muxed = Cardinality(DOMAIN muxed_pairs(GPIOMap))

\* C18: force_detection(v) with v = TT04 or TT06 reads no line, raises nothing,
\* records PCB = v and installs the map of v in place of the one installed
\* before.
C18_ForcedOverride ==
    (call.op = "force" /\ call.dbversion \in {TT04, TT06}) =>
        /\ PCB = call.dbversion
        /\ GPIOMap = mapToUse[call.dbversion]
        /\ ~call.raised
        /\ call.mux_0 = Unread /\ call.mux_1 = Unread
        /\ call.crst = Unread /\ call.cena = Unread

\* C18 witness: an override to TT04 after the probe or an earlier override had
\* installed the TT06 map
C18_Witness ==
    /\ call.op = "force"
    /\ call.dbversion = TT04
    /\ call.prevMap = GPIOMapTT06

\* the byte the bits of reg at the GPIOs of a port's pins make up, bit i from
\* the pin numbered i
PortByte(reg, basename) ==
    LET bit(i) == IF PortGpio(basename, i) \in reg THEN 1 ELSE 0
    IN  bit(0) + 2 * bit(1) + 4 * bit(2) + 8 * bit(3)
            + 16 * bit(4) + 32 * bit(5) + 64 * bit(6) + 128 * bit(7)

\* every pin of the port under test is an output / an input
PortAllOut == PortByte(GPIO_OE, io.port) = 255
PortAllIn == PortByte(GPIO_OE, io.port) = 0

C14_WitnessRegisters ==
    /\ io.op = "read" /\ io.port = pfx_out /\ io.wrote /\ PortAllOut
    /\ io.mode = STANDALONE
    /\ IsRP2040
    /\ io.val = 165

\* bit i of the number n
BitOf(n, i) == (n \div 2^i) % 2

C15_WitnessWrite ==
    io.op = "write" /\ io.port = pfx_uio /\ io.val = 90

\* C19: a byte write made while every pin of the port is an input leaves the
\* levels read on those pins as they were and puts the byte into the output
\* latches; when the pins are made outputs afterwards the levels on them are
\* the bits of that byte.
C19_BufferedWrite ==
    [][ /\ (io'.op = "write" /\ PortAllIn) =>
            /\ PortByte(GPIO_IN', io.port) = PortByte(GPIO_IN, io.port)
            /\ PortByte(GPIO_OUT', io.port) = io.val
        /\ (io'.op = "mode" /\ io.buffered /\ PortAllOut') =>
            PortByte(GPIO_IN', io.port) = io.val ]_vars

\* C19 witness: the pins of the input port made outputs after a byte that
\* differs from the levels on the lines was written to them as inputs
C19_Witness ==
    /\ io.op = "mode"
    /\ io.buffered
    /\ PortAllOut
    /\ io.port = pfx_in
    /\ PortByte(GPIO_EXT, io.port) # io.val
    /\ PortByte(GPIO_IN, io.port) = io.val

\* C20: of two consecutive read() calls on the same half of a muxed pair the
\* second makes no write to the selector line, so the two make at most one;
\* after every access the controller's selection is the index of the half
\* accessed.
C20_StickySelection ==
    /\ (access.op = "read" /\ access.again) =>
           access.toggles = 0 /\ access.before + access.toggles <= 1
    /\ access.op \in {"read", "write"} =>
           muxCtrl.selected = Selection(access.idx)

\* C20 witness: a second read of the half at index 1, the first of which had
\* to switch the selection
C20_Witness ==
    /\ access.op = "read"
    /\ access.again
    /\ access.idx = 1
    /\ access.before = 1

\* the order of steps the transitions are stated to have: the muxed pins
\* before the pass over in*/out*, the clock pin last in every mode
StatedSteps(m) ==
    <<"begin_inputs_all", "_begin_alwaysOut", "_begin_muxPins">>
    \o (CASE m = ASIC_RP_CONTROL -> <<"in_pass">>
          [] m = STANDALONE -> <<"out_in_pass">>
          [] OTHER -> << >>)
    \o <<"project_clk_driven_by_RP2040">>

\* C21 as stated: every transition runs the baseline, the always-outputs,
\* the muxed pins, the mode-specific pass and the clock pin in that order,
\* the muxed pins before the mode-specific pass.
C21_StatedOrder ==
    JustSet => pins.steps = StatedSteps(pins._mode)

\* C21: every transition runs, in this order, the baseline of all pins as
\* inputs, the always-outputs, the mode-specific pass over in*/out* (in
\* ASIC_RP_CONTROL and STANDALONE), the muxed pins for the target mode and the
\* clock pin direction (in every mode but SAFE); the muxed-pin step follows
\* the mode-specific pass.
C21_StepOrder ==
    JustSet =>
        /\ pins.steps = TransitionSteps(pins._mode)
        /\ \A i, j \in 1..Len(pins.steps) :
               (pins.steps[i] \in {"in_pass", "out_in_pass"}
                    /\ pins.steps[j] = "_begin_muxPins") => i < j

\* C21 witness: a transition into STANDALONE on the map with muxed pairs, with
\* the loop over out*/in* and the muxed-pin step both run
C21_Witness ==
    /\ call.op = "mode"
    /\ pins._mode = STANDALONE
    /\ demoboard_uses_mux(GPIOMap)
    /\ pins.subMode # << >>
    /\ Len(pins.steps) = 5

\* C22: once a Pins object exists its recorded mode is one of the four modes
\* of startupMap; a mode set with a value that is none of them records SAFE,
\* one with a value that is one of them records that value, and the pins are
\* left with the transition of the recorded mode applied.
C22_ModeTotal ==
    /\ pc = "running" => pins._mode \in startupMap
    /\ call.op = "mode" =>
        /\ call.setTo \notin startupMap => pins._mode = SAFE
        /\ call.setTo \in startupMap => pins._mode = call.setTo
        /\ TransitionApplied(pins._mode)

\* C22 witness: a mode set with a value that is none of the four modes, made
\* after the client changed a pin
C22_Witness ==
    /\ call.op = "mode"
    /\ call.setTo = INVALID_MODE
    /\ call.dirty
    /\ pins._mode = SAFE

\* the configuration a transition into the recorded mode gives a Pins object
\* that has no history, on the installed map and with the levels sampled
FreshConfig == Pins_init(GPIOMap, pins._mode, pins.sampled)

\* C23 as stated: after a mode set the mode and pull of every declared pin
\* are those the recorded mode, the installed map and the sampled levels
\* give, whatever the mode and the client's pin changes before it.
C23_HistoryIndependent ==
    call.op = "mode" =>
        /\ pins.pinMode = FreshConfig.pinMode
        /\ pins.pinPull = FreshConfig.pinPull
        /\ pins.subMode = FreshConfig.subMode

\* C23: after a mode set the mode and pull of every declared pin other than
\* the selector pin hk_csb are those the recorded mode, the installed map and
\* the sampled levels give, whatever the mode and the client's pin changes
\* before it.
C23_HistoryIndependentButSelector ==
    call.op = "mode" =>
        /\ DOMAIN pins.pinMode = DOMAIN FreshConfig.pinMode
        /\ \A n \in DOMAIN pins.pinMode \ {muxName} :
               /\ pins.pinMode[n] = FreshConfig.pinMode[n]
               /\ pins.pinPull[n] = FreshConfig.pinPull[n]
        /\ pins.subMode = FreshConfig.subMode

\* C23 witness: a transition into ASIC_RP_CONTROL made after a client change
\* of a pin, with an in* pin sampled high during it
C23_Witness ==
    /\ call.op = "mode"
    /\ call.dirty
    /\ pins._mode = ASIC_RP_CONTROL
    /\ \E n \in DOMAIN pins.sampled : pins.sampled[n] = 1

\* C24: force_detection(v) with v neither TT04 nor TT06 raises and leaves the
\* installed map and the recorded PCB as they were before the call, so that
\* whenever a map is installed PCB is the version it belongs to.
C24_InvalidOverrideRejected ==
    [][ /\ (call'.op = "force" /\ call'.dbversion \notin {TT04, TT06}) =>
            /\ call'.raised
            /\ GPIOMap' = GPIOMap
            /\ PCB' = PCB
        /\ GPIOMap' # NoMap =>
            PCB' \in DOMAIN mapToUse /\ GPIOMap' = mapToUse[PCB'] ]_vars

\* the bits of the output register a port is stated to own
StatedBits(basename) ==
    CASE basename = pfx_out -> (5..8) \cup (13..16)
      [] basename = pfx_in -> (9..12) \cup (17..20)
      [] basename = pfx_uio -> 21..28

\* C25: the masks of the three fast-path writes are bits 5-8 and 13-16, bits
\* 9-12 and 17-20, and bits 21-28, no bit in two of them; a write of a byte
\* to a port leaves every bit of the output register outside the port's bits
\* as it was, and the port's bits are the bits of the byte afterwards.
C25_WriteFramed ==
    [][ io'.op = "write" =>
            /\ OutputMask = StatedBits(pfx_out)
            /\ InputMask = StatedBits(pfx_in)
            /\ BidirMask = StatedBits(pfx_uio)
            /\ OutputMask \cap InputMask = {}
            /\ OutputMask \cap BidirMask = {}
            /\ InputMask \cap BidirMask = {}
            /\ GPIO_OUT' \ StatedBits(io.port) = GPIO_OUT \ StatedBits(io.port)
            /\ PortByte(GPIO_OUT', io.port) = io.val ]_vars

\* C25 witness: a byte with bits set and bits clear written to the
\* bidirectional port while every bit of the register was set; the bits
\* outside the port are still set
C25_Witness ==
    /\ io.op = "write"
    /\ io.port = pfx_uio
    /\ io.val = 165
    /\ (0..31) \ StatedBits(pfx_uio) \subseteq GPIO_OUT
    /\ 22 \notin GPIO_OUT

\* a byte written to the output port over a register with the odd bits set
C25_WitnessOutput ==
    /\ io.op = "write"
    /\ io.port = pfx_out
    /\ io.val = 195
    /\ GPIO_OUT \ StatedBits(pfx_out) = Word(715827882) \ StatedBits(pfx_out)

\* C26: after stop() returns, state machine 0 is not active, freq is 0 and
\* the clock pin is not left to the state machine, whatever start and stop
\* calls came before.
C26_StopStops ==
    clockCall.op = "stop" =>
        /\ ~machine.active
        /\ clock.freq = 0
        /\ machine.pin # PIO_pin

\* C27: after start(f) with f > 0 returns, state machine 0 is active and the
\* recorded freq is f, whether or not a clock was running before the call.
C27_StartRuns ==
    (clockCall.op = "start" /\ clockCall.freq_hz > 0) =>
        /\ machine.active
        /\ clock.freq = clockCall.freq_hz

====
